---- MODULE Spec2Model ----
(***************************************************************************)
(* Model of the two scripts of the repository:                             *)
(*   plot_growth.py  (pipeline A: growth-curve plots)                      *)
(*   trim_vector.py  (pipeline B: vector trimming of Sanger reads)         *)
(* Python strings are modelled as sequences of one-character strings, so   *)
(* that split, join, strip, int and str are computed as the code computes  *)
(* them.                                                                   *)
(***************************************************************************)
EXTENDS Integers, Sequences, FiniteSets, TLC

\* ------------------------------------------------------------------------
\* Bounds of the model
\* ------------------------------------------------------------------------
MaxNameLen == 4
MaxCols == 7
MaxTokens == 3
MaxLines == 1
MaxSeqLen == 3
MaxFiles == 2
MaxRecords == 2

\* ------------------------------------------------------------------------
\* Python built-ins used by the scripts
\* ------------------------------------------------------------------------
Min(a, b) == IF a <= b THEN a ELSE b
Max(a, b) == IF a >= b THEN a ELSE b

\* seq[a:b] with Python's treatment of negative and out-of-range bounds
PySlice(s, a, b) ==
    LET n  == Len(s)
        lo == IF a < 0 THEN Max(a + n, 0) ELSE Min(a, n)
        hi == IF b < 0 THEN Max(b + n, 0) ELSE Min(b, n)
    IN  IF lo >= hi THEN << >> ELSE SubSeq(s, lo + 1, hi)

\* whether seq[k] (k a Python index, possibly negative) exists
PyHasIndex(s, k) == IF k < 0 THEN -k <= Len(s) ELSE k < Len(s)

\* seq[k] for a Python index k that exists
PyIndex(s, k) == IF k < 0 THEN s[Len(s) + k + 1] ELSE s[k + 1]

\* str.split(sep) for a one-character separator
RECURSIVE split(_, _)
split(s, sep) ==
    IF \A k \in 1..Len(s) : s[k] # sep
    THEN << s >>
    ELSE LET k == CHOOSE k \in 1..Len(s) :
                     s[k] = sep /\ \A j \in 1..(k - 1) : s[j] # sep
         IN  << SubSeq(s, 1, k - 1) >> \o split(SubSeq(s, k + 1, Len(s)), sep)

\* sep.join(parts)
RECURSIVE join(_, _)
join(sep, parts) ==
    IF Len(parts) = 0 THEN << >>
    ELSE IF Len(parts) = 1 THEN parts[1]
    ELSE parts[1] \o sep \o join(sep, Tail(parts))

Whitespace == {" ", "\t", "\n"}

\* str.strip()
RECURSIVE lstrip(_)
lstrip(s) == IF Len(s) > 0 /\ s[1] \in Whitespace THEN lstrip(Tail(s)) ELSE s

RECURSIVE rstrip(_)
rstrip(s) ==
    IF Len(s) > 0 /\ s[Len(s)] \in Whitespace
    THEN rstrip(SubSeq(s, 1, Len(s) - 1)) ELSE s

strip(s) == rstrip(lstrip(s))

Digits == <<"0", "1", "2", "3", "4", "5", "6", "7", "8", "9">>
DigitSet == {Digits[k] : k \in 1..10}
DigitVal(c) == (CHOOSE k \in 1..10 : Digits[k] = c) - 1

\* str(n) for an integer n
RECURSIVE StrNat(_)
StrNat(n) == IF n < 10 THEN << Digits[n + 1] >>
             ELSE StrNat(n \div 10) \o << Digits[(n % 10) + 1] >>

str(n) == IF n < 0 THEN <<"-">> \o StrNat(-n) ELSE StrNat(n)

\* int(s): whether s is an optionally signed decimal literal, and its value
IsDigits(s) == Len(s) > 0 /\ \A k \in 1..Len(s) : s[k] \in DigitSet

IsInt(s) == IF Len(s) > 0 /\ s[1] \in {"-", "+"} THEN IsDigits(Tail(s))
            ELSE IsDigits(s)

RECURSIVE NatVal(_)
NatVal(s) == IF Len(s) = 0 THEN 0
             ELSE 10 * NatVal(SubSeq(s, 1, Len(s) - 1)) + DigitVal(s[Len(s)])

int(s) == IF s[1] = "-" THEN 0 - NatVal(Tail(s))
          ELSE IF s[1] = "+" THEN NatVal(Tail(s))
          ELSE NatVal(s)

\* float(s) succeeds: optionally signed digits with at most one point and at
\* least one digit (the literals the inputs below range over)
IsFloat(s) ==
    LET body  == IF Len(s) > 0 /\ s[1] \in {"-", "+"} THEN Tail(s) ELSE s
        parts == split(body, ".")
    IN  /\ Len(parts) \in {1, 2}
        /\ \A k \in 1..Len(parts) : parts[k] = << >> \/ IsDigits(parts[k])
        /\ \E k \in 1..Len(parts) : IsDigits(parts[k])

\* all sequences over S of length lo..hi
SeqsOf(S, lo, hi) == UNION {[1..n -> S] : n \in lo..hi}

\* ------------------------------------------------------------------------
\* plot_growth.py: check_samplename
\* ------------------------------------------------------------------------

\* check_samplename(s1, s2, s3): "True", "False", or the exception raised
check_samplename(n1, n2, n3) ==
    IF Len(PySlice(split(n1, "_"), 0, -1)) > 0
    THEN LET base1 == join(<< >>, PySlice(split(n1, "_"), 0, -1))
             base2 == join(<< >>, PySlice(split(n2, "_"), 0, -1))
             base3 == join(<< >>, PySlice(split(n3, "_"), 0, -1))
         IN  IF base1 = base2 /\ base2 = base3 THEN "True" ELSE "False"
    ELSE "UnboundLocalError"


\* ------------------------------------------------------------------------
\* State
\* ------------------------------------------------------------------------
VARIABLES
    \* check_samplename applied to three names
    s1, s2, s3, check,
    \* plot_growth.py (pipeline A)
    pc, argv, ylimit, col_names, i, files, pages, stdout, lines, line_no,
    \* trim_vector.py (pipeline B)
    pcB, ab1_files, ab1_idx, lucy_check, converted_dir, lucy_dir, trimmed_dir,
    rec_idx, extracted, log,
    \* the STEP 3 loop body applied to one record
    record, clr, new_record

varsN == << s1, s2, s3, check >>
varsA == << pc, argv, ylimit, col_names, i, files, pages, stdout, lines, line_no >>
varsB == << pcB, ab1_files, ab1_idx, lucy_check, converted_dir, lucy_dir,
            trimmed_dir, rec_idx, extracted, log >>
varsX == << record, clr, new_record >>
vars  == << varsN, varsA, varsB, varsX >>

\* ------------------------------------------------------------------------
\* check_samplename on its own
\* ------------------------------------------------------------------------
X_1 == <<"X", "_", "1">>
X_2 == <<"X", "_", "2">>
X_3 == <<"X", "_", "3">>
Y_3 == <<"Y", "_", "3">>
a_b_1 == <<"a", "_", "b", "_", "1">>
a_b_2 == <<"a", "_", "b", "_", "2">>
ab_2 == <<"a", "b", "_", "2">>
X == <<"X">>

\* names the validator is applied to: every string over {a, _} up to
\* MaxNameLen, and the names of the documentation
NameInputs ==
    SeqsOf({"a", "_"}, 0, MaxNameLen)
        \cup {X_1, X_2, X_3, Y_3, a_b_1, a_b_2, ab_2, X}

IdleN == s1 = << >> /\ s2 = << >> /\ s3 = << >> /\ check = "idle"

InitNames ==
    /\ s1 \in NameInputs /\ s2 \in NameInputs /\ s3 \in NameInputs
    /\ check = "none"

CallCheckSamplename ==
    /\ check = "none"
    /\ check' = check_samplename(s1, s2, s3)
    /\ UNCHANGED << s1, s2, s3, varsA, varsB, varsX >>

\* ------------------------------------------------------------------------
\* plot_growth.py: the script, top to bottom
\* ------------------------------------------------------------------------
PLOT1 == "plot_allsamples.pdf"
PLOT2 == "plot_triplicates.pdf"
PLOT3 == "plot_subgroups.pdf"
PdfNames == {PLOT1, PLOT2, PLOT3}

Time == <<"T", "i", "m", "e">>
A_1 == <<"A", "_", "1">>
A_2 == <<"A", "_", "2">>
A_3 == <<"A", "_", "3">>
A_4 == <<"A", "_", "4">>
B_1 == <<"B", "_", "1">>
B_2 == <<"B", "_", "2">>
B_3 == <<"B", "_", "3">>
A == <<"A">>

\* sample column names a data file may carry
SampleNames == {A_1, A_2, A_3, B_1, B_2, B_3, A}

\* sequences of n distinct names of S
RECURSIVE DistinctSeqs(_, _)
DistinctSeqs(S, n) ==
    IF n = 0 THEN {<< >>}
    ELSE UNION {{Append(h, x) : x \in S \ {h[j] : j \in 1..Len(h)}} :
                    h \in DistinctSeqs(S, n - 1)}

\* np.genfromtxt(names=True) makes the field names unique, so a header is a
\* sequence of distinct names
Headers == UNION {DistinctSeqs(SampleNames, n) : n \in 0..MaxCols}

\* sample names a subgroups file may carry
SubgroupNames == {A_1, A_4, A}

\* a line of the subgroups file: tab-separated names and the line end
SubgroupLines ==
    {join(<<"\t">>, toks) \o <<"\n">> : toks \in SeqsOf(SubgroupNames, 0, MaxTokens)}

\* sys.argv: the program, the data file, the y limit, the subgroups file
YArgs == {<<"1">>, <<"0", ".", "7", "5">>, <<"x">>}
ArgvInputs ==
    {<< <<"p">> >>, << <<"p">>, <<"d">> >>}
        \cup {<< <<"p">>, <<"d">>, y >> : y \in YArgs}
        \cup {<< <<"p">>, <<"d">>, y, <<"s">> >> : y \in YArgs}

Unbound == [bound |-> FALSE]
NotLoaded == << >>

IdleA ==
    /\ pc = "idle" /\ argv = << >> /\ ylimit = Unbound /\ col_names = NotLoaded
    /\ i = 0 /\ files = [f \in PdfNames |-> "absent"]
    /\ pages = [f \in PdfNames |-> 0] /\ stdout = << >>
    /\ lines = << >> /\ line_no = 0

InitA ==
    /\ pc = "args" /\ argv = << >> /\ ylimit = Unbound /\ col_names = NotLoaded
    /\ i = 0 /\ files = [f \in PdfNames |-> "absent"]
    /\ pages = [f \in PdfNames |-> 0] /\ stdout = << >>
    /\ lines = << >> /\ line_no = 0

\* number of sample columns (the columns after the time column)
num_samples == Len(col_names) - 1

\* lines 76-91: arguments
ParseArgs ==
    /\ pc = "args"
    /\ \E a \in ArgvInputs :
        /\ argv' = a
        /\ IF Len(a) > 2
           THEN /\ ylimit' = IF IsFloat(a[3]) THEN [bound |-> TRUE, text |-> a[3]]
                             ELSE Unbound
                /\ stdout' = stdout \o
                      << "Data file", IF IsFloat(a[3]) THEN "Y axis upper limit"
                                      ELSE "Whoops, numerical value for y limit" >>
                      \o (IF Len(a) > 3 THEN << "Subgroups file" >> ELSE << >>)
                /\ pc' = "load"
           ELSE /\ ylimit' = ylimit
                /\ stdout' = Append(stdout, "Whoops, provide data filename and y limit")
                /\ pc' = "exited"
    /\ UNCHANGED << col_names, i, files, pages, lines, line_no, varsN, varsB, varsX >>

\* lines 114-118: load the table; the first column must be named Time
LoadData ==
    /\ pc = "load"
    /\ \/ \E h \in Headers, first \in {Time, <<"t">>} :
            /\ col_names' = << first >> \o h
            /\ pc' = IF first = Time THEN "check_number" ELSE "ValueError"
       \/ /\ col_names' = col_names
          /\ pc' = "IOError"
    /\ UNCHANGED << argv, ylimit, i, files, pages, stdout, lines, line_no, varsN, varsB, varsX >>

\* lines 120-125: the sample count must be a multiple of three
CheckSampleNumber ==
    /\ pc = "check_number"
    /\ IF num_samples % 3 # 0
       THEN /\ stdout' = stdout \o << "Checking sample number",
                                      "Whoops, sample number is not a multiple of 3" >>
            /\ pc' = "exited"
            /\ i' = i
       ELSE /\ stdout' = stdout \o << "Checking sample number",
                                      "Checking triplicate sample names in data file" >>
            /\ pc' = IF 1 < num_samples + 1 THEN "check_names" ELSE "plot1"
            /\ i' = 1
    /\ UNCHANGED << argv, ylimit, col_names, files, pages, lines, line_no, varsN, varsB, varsX >>

\* CheckTriplicateNames with the sys.exit() of line 133 left out: the message
\* is printed and the loop goes on
CheckTriplicateNamesNoExit ==
    /\ pc = "check_names"
    /\ LET c == check_samplename(col_names[i + 1], col_names[i + 2], col_names[i + 3])
       IN  IF c \in {"True", "False"}
           THEN /\ pc' = IF i + 3 < num_samples + 1 THEN "check_names" ELSE "plot1"
                /\ i' = i + 3
                /\ stdout' = IF c = "True" THEN stdout
                             ELSE Append(stdout, "Whoops, triplicate samples labeled correctly")
           ELSE /\ pc' = c
                /\ i' = i
                /\ stdout' = stdout
    /\ UNCHANGED << argv, ylimit, col_names, files, pages, lines, line_no, varsN, varsB, varsX >>

\* lines 129-133: one pass of the loop over the triples of columns
\* (col_names[i] of the code is col_names[i + 1] here)
CheckTriplicateNames ==
    /\ pc = "check_names"
    /\ LET c == check_samplename(col_names[i + 1], col_names[i + 2], col_names[i + 3])
       IN  IF c = "True"
           THEN /\ pc' = IF i + 3 < num_samples + 1 THEN "check_names" ELSE "plot1"
                /\ i' = i + 3
                /\ stdout' = stdout
           ELSE IF c = "False"
           THEN /\ pc' = "exited"
                /\ i' = i
                /\ stdout' = Append(stdout, "Whoops, triplicate samples labeled correctly")
           ELSE /\ pc' = c
                /\ i' = i
                /\ stdout' = stdout
    /\ UNCHANGED << argv, ylimit, col_names, files, pages, lines, line_no, varsN, varsB, varsX >>


\* lines 138-140: PdfPages('plot_allsamples.pdf') creates the file
Plot1Open ==
    /\ pc = "plot1"
    /\ stdout' = Append(stdout, "Making plot of all samples")
    /\ files' = [files EXCEPT ![PLOT1] = "open"]
    /\ pc' = "plot1_draw"
    /\ UNCHANGED << argv, ylimit, col_names, i, pages, lines, line_no,
                    varsN, varsB, varsX >>

\* lines 141-167: the curves of every triple, then plt.ylim(0, ylimit), which
\* raises NameError when ylimit was never bound; savefig and close
Plot1Draw ==
    /\ pc = "plot1_draw"
    /\ IF ylimit.bound
       THEN /\ pages' = [pages EXCEPT ![PLOT1] = 1]
            /\ files' = [files EXCEPT ![PLOT1] = "closed"]
            /\ pc' = "plot2"
       ELSE /\ pages' = pages
            /\ files' = files
            /\ pc' = "NameError"
    /\ UNCHANGED << argv, ylimit, col_names, i, stdout, lines, line_no,
                    varsN, varsB, varsX >>

\* lines 172-173: PdfPages('plot_triplicates.pdf')
Plot2Open ==
    /\ pc = "plot2"
    /\ stdout' = Append(stdout, "Making plot of triplicates")
    /\ files' = [files EXCEPT ![PLOT2] = "open"]
    /\ i' = 1
    /\ pc' = IF 1 < num_samples + 1 THEN "plot2_page" ELSE "plot2_close"
    /\ UNCHANGED << argv, ylimit, col_names, pages, lines, line_no,
                    varsN, varsB, varsX >>

\* lines 174-211: one page per triple of columns
Plot2Page ==
    /\ pc = "plot2_page"
    /\ pages' = [pages EXCEPT ![PLOT2] = @ + 1]
    /\ i' = i + 3
    /\ pc' = IF i + 3 < num_samples + 1 THEN "plot2_page" ELSE "plot2_close"
    /\ UNCHANGED << argv, ylimit, col_names, files, stdout, lines, line_no,
                    varsN, varsB, varsX >>

\* line 213
Plot2Close ==
    /\ pc = "plot2_close"
    /\ files' = [files EXCEPT ![PLOT2] = "closed"]
    /\ pc' = "subgroups"
    /\ UNCHANGED << argv, ylimit, col_names, i, pages, stdout, lines, line_no,
                    varsN, varsB, varsX >>

\* lines 219-222 and 315-318: open the subgroups file when one was named
OpenSubgroups ==
    /\ pc = "subgroups"
    /\ IF Len(argv) > 3
       THEN \/ /\ stdout' = Append(stdout, "Checking triplicate sample names in subgroups file")
               /\ pc' = "sub_check"
            \/ /\ stdout' = stdout
               /\ pc' = "IOError"
       ELSE /\ stdout' = stdout \o << "No subgroups file provided", "All done!" >>
            /\ pc' = "done"
    /\ UNCHANGED << argv, ylimit, col_names, i, files, pages, lines, line_no,
                    varsN, varsB, varsX >>

\* the names of col_names, as `in col_names` sees them
ColumnSet == {col_names[j] : j \in 1..Len(col_names)}

\* lines 233-237 from triple j on: "ok", or how the loop ends the run
RECURSIVE CheckLineNames(_, _)
CheckLineNames(samples, j) ==
    IF j >= Len(samples) THEN "ok"
    ELSE IF ~PyHasIndex(samples, j + 2) THEN "IndexError"
    ELSE LET c == check_samplename(samples[j + 1], samples[j + 2], samples[j + 3])
         IN  IF c = "True" THEN CheckLineNames(samples, j + 3)
             ELSE IF c = "False" THEN "exit_labels"
             ELSE c

\* line 241: the condition under which the run is ended
\* (`not` binds tighter than `and`)
NotInDataFile(samples, j, cols) ==
    /\ ~(samples[j + 1] \in cols)
    /\ samples[j + 2] \in cols
    /\ samples[j + 3] \in cols

\* lines 240-243 from triple j on
RECURSIVE CheckLineMembers(_, _, _)
CheckLineMembers(samples, j, cols) ==
    IF j >= Len(samples) THEN "ok"
    ELSE IF NotInDataFile(samples, j, cols) THEN "exit_members"
    ELSE CheckLineMembers(samples, j + 3, cols)

\* lines 228-243 for one line of the file
CheckLine(line, cols) ==
    IF strip(line) = << >> THEN "ok"
    ELSE LET samples == split(strip(line), "\t")
             labels  == CheckLineNames(samples, 0)
         IN  IF labels # "ok" THEN labels ELSE CheckLineMembers(samples, 0, cols)

\* lines 225-243: the first pass reads the next line of the file and checks
\* it, or finds the end of the file; lines 247-255 follow the end of the file
CheckSubgroupLine ==
    /\ pc = "sub_check"
    /\ \/ /\ Len(lines) < MaxLines
          /\ \E line \in SubgroupLines :
               LET c == CheckLine(line, ColumnSet)
               IN  IF c = "ok"
                   THEN /\ lines' = Append(lines, line)
                        /\ pc' = pc
                        /\ stdout' = stdout
                   ELSE IF c = "exit_labels"
                   THEN /\ lines' = lines
                        /\ pc' = "exited"
                        /\ stdout' = Append(stdout, "Whoops, subgroup sample names labeled correctly")
                   ELSE IF c = "exit_members"
                   THEN /\ lines' = lines
                        /\ pc' = "exited"
                        /\ stdout' = Append(stdout, "Whoops, subgroup sample names correspond to data file")
                   ELSE /\ lines' = lines
                        /\ pc' = c
                        /\ stdout' = stdout
          /\ UNCHANGED << files, line_no >>
       \/ /\ stdout' = Append(stdout, "Making plot of subgroups")
          /\ files' = [files EXCEPT ![PLOT3] = "open"]
          /\ line_no' = 0
          /\ pc' = "plot3_page"
          /\ lines' = lines
    /\ UNCHANGED << argv, ylimit, col_names, i, pages, varsN, varsB, varsX >>

\* lines 257-311: the second pass, one line of the file; data[name] raises
\* ValueError for a name that is no field of the table
Plot3Page ==
    /\ pc = "plot3_page"
    /\ line_no < Len(lines)
    /\ LET line == lines[line_no + 1]
           samples == split(strip(line), "\t")
       IN  IF strip(line) = << >>
           THEN /\ pages' = pages
                /\ line_no' = line_no + 1
                /\ pc' = pc
           ELSE IF \E j \in 1..Len(samples) : samples[j] \notin ColumnSet
           THEN /\ pages' = pages
                /\ line_no' = line_no
                /\ pc' = "ValueError"
           ELSE /\ pages' = [pages EXCEPT ![PLOT3] = @ + 1]
                /\ line_no' = line_no + 1
                /\ pc' = pc
    /\ UNCHANGED << argv, ylimit, col_names, i, files, stdout, lines,
                    varsN, varsB, varsX >>

\* lines 313 and 318
Plot3Close ==
    /\ pc = "plot3_page"
    /\ line_no = Len(lines)
    /\ files' = [files EXCEPT ![PLOT3] = "closed"]
    /\ stdout' = Append(stdout, "All done!")
    /\ pc' = "done"
    /\ UNCHANGED << argv, ylimit, col_names, i, pages, lines, line_no,
                    varsN, varsB, varsX >>


\* ------------------------------------------------------------------------
\* trim_vector.py: the body of the STEP 3 loop
\* ------------------------------------------------------------------------

\* ExtractInsert with the end coordinate taken as the exclusive bound without
\* the subtraction of line 75
ExtractInsertEndNotShifted(rec) ==
    LET toks == split(rec.description, " ")
    IN  IF ~IsInt(PyIndex(toks, -1)) THEN [error |-> "ValueError"]
        ELSE IF ~PyHasIndex(toks, -2) THEN [error |-> "IndexError"]
        ELSE IF ~IsInt(PyIndex(toks, -2)) THEN [error |-> "ValueError"]
        ELSE LET insert_end   == int(PyIndex(toks, -1))
                 insert_start == int(PyIndex(toks, -2)) - 1
                 insert_seq   == PySlice(rec.seq, insert_start, insert_end)
                 insert_id    == rec.id \o <<"-", "t", "r", "i", "m", "m", "e", "d">>
                 descr        == str(insert_start) \o <<"-">> \o str(insert_end)
                                     \o <<" ">> \o str(Len(insert_seq))
             IN  [error |-> "none", id |-> insert_id, description |-> descr,
                  seq |-> insert_seq]

\* lines 75-82 for one record of the lucy output: the record written, or the
\* exception raised
ExtractInsert(rec) ==
    LET toks == split(rec.description, " ")
    IN  IF ~IsInt(PyIndex(toks, -1)) THEN [error |-> "ValueError"]
        ELSE IF ~PyHasIndex(toks, -2) THEN [error |-> "IndexError"]
        ELSE IF ~IsInt(PyIndex(toks, -2)) THEN [error |-> "ValueError"]
        ELSE LET insert_end   == int(PyIndex(toks, -1)) - 1
                 insert_start == int(PyIndex(toks, -2)) - 1
                 insert_seq   == PySlice(rec.seq, insert_start, insert_end)
                 insert_id    == rec.id \o <<"-", "t", "r", "i", "m", "m", "e", "d">>
                 descr        == str(insert_start) \o <<"-">> \o str(insert_end)
                                     \o <<" ">> \o str(Len(insert_seq))
             IN  [error |-> "none", id |-> insert_id, description |-> descr,
                  seq |-> insert_seq]

Bases == {"A", "C", "G", "T"}

\* the header line lucy writes: the read's name, three counts, and the
\* 1-based start and end of the insert
LucyRecord(id, seq, s, e) ==
    [id |-> id,
     description |-> id \o <<" ", "0", " ", "0", " ", "0", " ">> \o str(s)
                        \o <<" ">> \o str(e),
     seq |-> seq]

read1 == <<"r", "1">>

\* a read of 60 bases, A C G T repeated
RefSeq == [p \in 1..60 |-> <<"A", "C", "G", "T">>[((p - 1) % 4) + 1]]
RefRecord == LucyRecord(read1, RefSeq, 10, 50)

\* records whose header does not end in two integers
MalformedRecords ==
    {[id |-> read1, description |-> read1, seq |-> <<"A", "C">>],
     [id |-> read1, description |-> read1 \o <<" ", "5">>, seq |-> <<"A", "C">>],
     [id |-> <<"5">>, description |-> <<"5">>, seq |-> <<"A", "C">>],
     [id |-> read1, description |-> read1 \o <<" ", "1", " ">>, seq |-> <<"A", "C">>]}

NoClr == << >>
NoRecord == [error |-> "not run"]

InitExtract ==
    /\ \/ \E seq \in SeqsOf(Bases, 0, MaxSeqLen),
            s \in (0 - 1)..(MaxSeqLen + 2), e \in (0 - 1)..(MaxSeqLen + 2) :
              /\ record = LucyRecord(read1, seq, s, e)
              /\ clr = << s, e >>
       \/ /\ record = RefRecord
          /\ clr = << 10, 50 >>
       \/ /\ record \in MalformedRecords
          /\ clr = NoClr
    /\ new_record = NoRecord

IdleX == record = NoRecord /\ clr = NoClr /\ new_record = NoRecord

ExtractRecord ==
    /\ new_record = NoRecord
    /\ new_record' = ExtractInsert(record)
    /\ UNCHANGED << record, clr, varsN, varsA, varsB >>


\* ------------------------------------------------------------------------
\* trim_vector.py: the script, top to bottom
\* ------------------------------------------------------------------------

\* the characters of the file names, in code-point order
CodePoints ==
    <<"!", "-", ".", "0", "1", "2", "3", "4", "5", "6", "7", "8", "9",
      "A", "B", "C", "D", "E", "F", "G", "H", "I", "J", "K", "L", "M",
      "N", "O", "P", "Q", "R", "S", "T", "U", "V", "W", "X", "Y", "Z", "_",
      "a", "b", "c", "d", "e", "f", "g", "h", "i", "j", "k", "l", "m",
      "n", "o", "p", "q", "r", "s", "t", "u", "v", "w", "x", "y", "z">>
ord(c) == CHOOSE n \in 1..Len(CodePoints) : CodePoints[n] = c

\* a < b for Python strings
RECURSIVE StrLess(_, _)
StrLess(a, b) ==
    IF Len(b) = 0 THEN FALSE
    ELSE IF Len(a) = 0 THEN TRUE
    ELSE IF a[1] # b[1] THEN ord(a[1]) < ord(b[1])
    ELSE StrLess(Tail(a), Tail(b))

\* os.path.splitext(name)[0]: the name up to its last dot, when that dot
\* follows a character that is not a dot
splitext0(name) ==
    LET dots == {n \in 1..Len(name) : name[n] = "."}
        last == CHOOSE n \in dots : \A m \in dots : m <= n
    IN  IF dots = {} \/ \A n \in 1..(last - 1) : name[n] = "." THEN name
        ELSE SubSeq(name, 1, last - 1)

\* re.sub("[^a-zA-Z\_\-\d]", "", s)
KeptChars == {CodePoints[n] : n \in 1..Len(CodePoints)} \ {"!", "."}
clean(s) == SelectSeq(s, LAMBDA c : c \in KeptChars)

clean_basename(ab1) == clean(splitext0(ab1))

a_ab1  == <<"a", ".", "a", "b", "1">>
a1_ab1 == <<"a", "!", ".", "a", "b", "1">>
b_ab1  == <<"b", ".", "a", "b", "1">>
Ab1Names == {a_ab1, a1_ab1, b_ab1}

\* os.listdir followed by sort(): the sorted listings of up to MaxFiles files
Listings ==
    {l \in SeqsOf(Ab1Names, 0, MaxFiles) :
        \A m, n \in 1..Len(l) : m < n => StrLess(l[m], l[n])}


\* what lucy may write for one read
acgt == <<"A", "C", "G", "T">>
LucyRecords ==
    {LucyRecord(read1, acgt, 1, 3), LucyRecord(read1, acgt, 2, 4),
     [id |-> read1, description |-> read1, seq |-> acgt]}

\* the output fasta a lucy run may write
LucyOutputs == SeqsOf(LucyRecords, 0, MaxRecords)

IdleB ==
    /\ pcB = "idle" /\ ab1_files = << >> /\ ab1_idx = 0 /\ lucy_check = 0
    /\ converted_dir = {} /\ lucy_dir = << >> /\ trimmed_dir = << >>
    /\ rec_idx = 0 /\ extracted = << >> /\ log = << >>

InitB ==
    /\ pcB = "start" /\ ab1_files = << >> /\ ab1_idx = 0 /\ lucy_check = 0
    /\ converted_dir = {} /\ lucy_dir = << >> /\ trimmed_dir = << >>
    /\ rec_idx = 0 /\ extracted = << >> /\ log = << >>

\* the file the loop is at
ab1 == ab1_files[ab1_idx]

\* lines 24-38: the output directories, the sorted listing
MakeDirs ==
    /\ pcB = "start"
    /\ \/ \E l \in Listings :
            /\ ab1_files' = l
            /\ ab1_idx' = 1
            /\ pcB' = IF Len(l) > 0 THEN "step1" ELSE "done"
       \/ /\ pcB' = "OSError"
          /\ UNCHANGED << ab1_files, ab1_idx >>
    /\ UNCHANGED << lucy_check, converted_dir, lucy_dir, trimmed_dir, rec_idx,
                    extracted, log, varsN, varsA, varsX >>

\* lines 41-51: STEP 1, the fasta/qual pair of the file, or the exception of
\* SeqIO.convert for a file that is no ab1 file
Step1Convert ==
    /\ pcB = "step1"
    /\ \/ /\ converted_dir' = converted_dir \cup {clean_basename(ab1)}
          /\ pcB' = "step2"
       \/ /\ converted_dir' = converted_dir
          /\ pcB' = "convert error"
    /\ UNCHANGED << ab1_files, ab1_idx, lucy_check, lucy_dir, trimmed_dir, rec_idx,
                    extracted, log, varsN, varsA, varsX >>

\* lines 55-66: STEP 2, lucy runs and exits with some code; a run that exits 0
\* has written its output, a failed run may or may not have; the code is
\* reported in a message, and nothing else depends on it
Step2Lucy ==
    /\ pcB = "step2"
    /\ \E code \in {0, 1}, wrote \in BOOLEAN, out \in LucyOutputs :
        /\ code = 0 => wrote
        /\ lucy_check' = code
        /\ lucy_dir' = IF wrote THEN (clean_basename(ab1) :> out) @@ lucy_dir
                       ELSE lucy_dir
        /\ log' = Append(log, [ab1 |-> ab1, check |-> code,
                               said |-> IF code = 0 THEN "Done running Lucy."
                                        ELSE "Whoops, something went wrong with Lucy!"])
    /\ pcB' = "step3"
    /\ UNCHANGED << ab1_files, ab1_idx, converted_dir, trimmed_dir, rec_idx,
                    extracted, varsN, varsA, varsX >>

\* lines 70-72: SeqIO.parse opens the lucy output of the file
Step3Parse ==
    /\ pcB = "step3"
    /\ IF clean_basename(ab1) \in DOMAIN lucy_dir
       THEN pcB' = "step3 loop"
       ELSE pcB' = "IOError"
    /\ rec_idx' = 0
    /\ extracted' = << >>
    /\ UNCHANGED << ab1_files, ab1_idx, lucy_check, converted_dir, lucy_dir,
                    trimmed_dir, log, varsN, varsA, varsX >>

\* lines 72-85: one record: SeqIO.write opens the trimmed file for writing,
\* so the file holds the record just written
Step3Record ==
    /\ pcB = "step3 loop"
    /\ rec_idx < Len(lucy_dir[clean_basename(ab1)])
    /\ LET new == ExtractInsert(lucy_dir[clean_basename(ab1)][rec_idx + 1])
       IN  IF new.error = "none"
           THEN /\ trimmed_dir' = (clean_basename(ab1) :> << new >>) @@ trimmed_dir
                /\ extracted' = Append(extracted, new)
                /\ rec_idx' = rec_idx + 1
                /\ pcB' = pcB
           ELSE /\ pcB' = new.error
                /\ UNCHANGED << trimmed_dir, extracted, rec_idx >>
    /\ UNCHANGED << ab1_files, ab1_idx, lucy_check, converted_dir, lucy_dir, log,
                    varsN, varsA, varsX >>

\* lines 87-89: the file is done, on to the next
DoneTrimming ==
    /\ pcB = "step3 loop"
    /\ rec_idx = Len(lucy_dir[clean_basename(ab1)])
    /\ ab1_idx' = ab1_idx + 1
    /\ pcB' = IF ab1_idx < Len(ab1_files) THEN "step1" ELSE "done"
    /\ UNCHANGED << ab1_files, lucy_check, converted_dir, lucy_dir, trimmed_dir,
                    rec_idx, extracted, log, varsN, varsA, varsX >>

\* ------------------------------------------------------------------------
\* Specifications
\* ------------------------------------------------------------------------
NextNames == CallCheckSamplename
InitSpecNames == InitNames /\ IdleA /\ IdleB /\ IdleX
SpecNames == InitSpecNames /\ [][NextNames]_vars

NextA ==
    \/ ParseArgs \/ LoadData \/ CheckSampleNumber \/ CheckTriplicateNames
    \/ Plot1Open \/ Plot1Draw \/ Plot2Open \/ Plot2Page \/ Plot2Close
    \/ OpenSubgroups \/ CheckSubgroupLine \/ Plot3Page \/ Plot3Close
InitSpecA == InitA /\ IdleN /\ IdleB /\ IdleX
SpecA == InitSpecA /\ [][NextA]_vars

NextB ==
    \/ MakeDirs \/ Step1Convert \/ Step2Lucy \/ Step3Parse \/ Step3Record
    \/ DoneTrimming
InitSpecB == InitB /\ IdleN /\ IdleA /\ IdleX
SpecB == InitSpecB /\ [][NextB]_vars

NextExtract == ExtractRecord
InitSpecExtract == InitExtract /\ IdleN /\ IdleA /\ IdleB
SpecExtract == InitSpecExtract /\ [][NextExtract]_vars


\* ------------------------------------------------------------------------
\* Properties
\* ------------------------------------------------------------------------
HasUnderscore(n) == \E j \in 1..Len(n) : n[j] = "_"

\* the name with its trailing "_<index>" segment removed
BaseIdentifier(n) ==
    LET last == CHOOSE j \in 1..Len(n) :
                    n[j] = "_" /\ \A m \in (j + 1)..Len(n) : n[m] # "_"
    IN  SubSeq(n, 1, last - 1)

\* C1: for names that each carry an underscore, check_samplename returns
\* true exactly when the three names have the same base identifier (the
\* name with its trailing "_<index>" segment removed)
C1_TrueIffSameBase ==
    (check # "none" /\ HasUnderscore(s1) /\ HasUnderscore(s2) /\ HasUnderscore(s3))
        => ((check = "True")
              <=> (BaseIdentifier(s1) = BaseIdentifier(s2)
                     /\ BaseIdentifier(s2) = BaseIdentifier(s3)))

\* C10: when at least one of the three names carries no underscore,
\* check_samplename returns false (neither true nor an exception)
C10_NoUnderscoreIsFalse ==
    (check # "none"
        /\ (~HasUnderscore(s1) \/ ~HasUnderscore(s2) \/ ~HasUnderscore(s3)))
        => check = "False"

NoOutputFile == \A f \in PdfNames : files[f] = "absent" /\ pages[f] = 0

Loaded == col_names # NotLoaded /\ col_names[1] = Time

\* the first columns of the triples of the table (indices of this model)
TripleStarts == {j \in 2..Len(col_names) : (j - 2) % 3 = 0}

\* the table loaded has a sample count that is no multiple of three, or a
\* triple of consecutive sample columns for which check_samplename is False
BadDataTable ==
    /\ Loaded
    /\ \/ num_samples % 3 # 0
       \/ \E j \in TripleStarts :
            check_samplename(col_names[j], col_names[j + 1], col_names[j + 2]) = "False"

Whoops(msg) ==
    msg \in {"Whoops, sample number is not a multiple of 3",
             "Whoops, triplicate samples labeled correctly"}

LineTokens(line) == IF strip(line) = << >> THEN {}
                    ELSE LET samples == split(strip(line), "\t")
                         IN  {samples[j] : j \in 1..Len(samples)}

AbsentToken ==
    \E n \in 1..Len(lines) : \E tok \in LineTokens(lines[n]) : tok \notin ColumnSet

\* C3: when a token of a non-empty line of the subgroups file is no column
\* name of the data table, plot_subgroups.pdf is never opened or written
C3_AbsentTokenNoSubgroupPlot ==
    AbsentToken => (files[PLOT3] = "absent" /\ pages[PLOT3] = 0)

ArgumentError == Len(argv) > 0 /\ (Len(argv) <= 2 \/ ~IsFloat(argv[3]))

\* C6: with a y limit that is no number, or with arguments missing, the run
\* loads no data and opens or writes no output file
C6_ArgumentErrorFatal ==
    ArgumentError => (col_names = NotLoaded /\ NoOutputFile)

Terminated ==
    pc \in {"exited", "done", "IOError", "ValueError", "NameError",
            "UnboundLocalError", "IndexError"}

\* the check of the subgroups file has ended the run, or a line it read
\* names a column the table does not have
SubgroupViolation ==
    \/ /\ Len(stdout) > 0
       /\ stdout[Len(stdout)] \in
            {"Whoops, subgroup sample names labeled correctly",
             "Whoops, subgroup sample names correspond to data file"}
    \/ AbsentToken

\* C7: a run in which the subgroups file has a violation has written none
\* of the three output files when it terminates
C7_SubgroupViolationNoReport ==
    (Terminated /\ SubgroupViolation) => \A f \in PdfNames : files[f] = "absent"

\* C4: for a file on which lucy exits non-zero, STEP 3 extracts nothing and
\* the run goes on to the next file (no exception ends it in STEP 3)
C4_FailedLucySkipsStep3 ==
    lucy_check # 0 =>
        /\ pcB \notin {"IOError", "ValueError", "IndexError"}
        /\ pcB = "step3 loop" => extracted = << >>

\* C8: once a file is processed, its trimmed file holds the trimmed insert of
\* every record parsed from the lucy output
C8_EveryRecordKept ==
    (pcB \in {"step1", "done"} /\ ab1_idx > 1 /\ Len(extracted) >= 1) =>
        trimmed_dir[clean_basename(ab1_files[ab1_idx - 1])] = extracted

\* the coordinates are those of the claim: 1 <= s <= e <= length + bonus
Extracted(bonus) ==
    /\ new_record # NoRecord
    /\ clr # NoClr
    /\ 1 <= clr[1] /\ clr[1] <= clr[2] /\ clr[2] <= Len(record.seq) + bonus

\* C5: for a description ending in integers s and e, 1 <= s <= e <= length
\* + 1, the record written is the bases at 0-based positions s-1 up to but
\* not including e-1, with the identifier suffixed "-trimmed" and the
\* description "<s-1>-<e-1> <e-s>"; for "10 50" the description is "9-49 40"
C5_HalfOpenSlice ==
    /\ Extracted(1) =>
         /\ new_record.error = "none"
         /\ Len(new_record.seq) = clr[2] - clr[1]
         /\ \A p \in 1..(clr[2] - clr[1]) :
                new_record.seq[p] = record.seq[clr[1] - 1 + p]
         /\ new_record.id = record.id \o <<"-", "t", "r", "i", "m", "m", "e", "d">>
         /\ new_record.description =
                str(clr[1] - 1) \o <<"-">> \o str(clr[2] - 1) \o <<" ">>
                    \o str(clr[2] - clr[1])
    /\ (record = RefRecord /\ new_record # NoRecord) =>
         /\ new_record.description = <<"9", "-", "4", "9", " ", "4", "0">>
         /\ new_record.seq = SubSeq(RefSeq, 10, 49)
         /\ new_record.id = <<"r", "1", "-", "t", "r", "i", "m", "m", "e", "d">>

\* C5 witness: the record whose description ends in "10 50" has been
\* extracted
C5_Witness ==
    /\ record = RefRecord
    /\ new_record # NoRecord
    /\ new_record.error = "none"
    /\ Len(new_record.seq) = 40

\* C9: for 1 <= s <= e <= length the insert written is the bases at 1-based
\* positions s through e inclusive
C9_InclusiveEnd ==
    Extracted(0) =>
        /\ new_record.error = "none"
        /\ new_record.seq = SubSeq(record.seq, clr[1], clr[2])

====
